---- MODULE Spec2Model ----
(***************************************************************************)
(* octargs: the argument repository (internal/argument_repository.hpp)     *)
(* and the two-phase parsing engine (parser.hpp).                          *)
(*                                                                         *)
(* A string is a sequence of one-character strings, so that searching a    *)
(* literal in a name and splitting a token at the value separator are      *)
(* computed the way the code computes them.                                *)
(***************************************************************************)
EXTENDS Integers, Sequences, FiniteSets, TLC

VARIABLES
    m_arguments,            \* basic_argument_repository::m_arguments
    m_subparsers_argument,  \* basic_argument_repository::m_subparsers_argument
    m_names_repository,     \* basic_argument_repository::m_names_repository
    pc,                     \* where the caller is: idle, returned, named, positional, required, done
    call,                   \* the API call in progress or just finished
    result,                 \* its outcome: none, running, ok, or the error raised
    tokens,                 \* the argument table of the parse in progress
    pos,                    \* argument_table_iterator: number of tokens taken
    values,                 \* results_data: argument id -> recorded values
    arg_iter,               \* parse_positional_arguments: index of the current slot
    other                   \* the parse state of a second parse call on the same parser

vars == <<m_arguments, m_subparsers_argument, m_names_repository,
          pc, call, result, tokens, pos, values, arg_iter, other>>

repo_vars == <<m_arguments, m_subparsers_argument, m_names_repository>>
parse_vars == <<tokens, pos, values, arg_iter>>

----------------------------------------------------------------------------
(* Bounds of the model *)

\* longest name vector handed to one registration call
MaxNames == 2

\* largest maximum count an argument is configured with
MaxCount == 2

\* longest argument table handed to parse
MaxTokens == 3

\* longest argument table handed to each of two parse calls in progress at once
MaxConcurrentTokens == 1

\* longest argument table handed to parse where every call is followed to its end
MaxFairTokens == 2

----------------------------------------------------------------------------
(* Strings *)

Range(s) == {s[i] : i \in DOMAIN s}

SeqsUpTo(S, n) == UNION {[1..k -> S] : k \in 0..n}

\* std::basic_string::find(literal): first index (1-based) or 0 for npos
Find(s, lit) ==
    LET hits == {i \in 1..(Len(s) - Len(lit) + 1) : SubSeq(s, i, i + Len(lit) - 1) = lit}
    IN  IF hits = {} THEN 0 ELSE CHOOSE i \in hits : \A j \in hits : i <= j

value_separator_literal == <<"=">>
subparser_separator_literal == <<"/">>
switch_enabled_literal == <<"t", "r", "u", "e">>

is_space(c) == c \in {" "}

\* names offered to the registration calls: valid ones and one of every invalid sort
NamePool ==
    { <<>>, <<"a">>, <<"b">>, <<"a", " ">>, <<"a", "=">>, <<"/", "b">> }

NameVectors == SeqsUpTo(NamePool, MaxNames)

----------------------------------------------------------------------------
(* Argument definitions *)

NoArg == [id |-> 0, kind |-> "NONE", names |-> <<>>, min_count |-> 0, max_count |-> 0]

Argument(id, kind, names, min_count, max_count) ==
    [id |-> id, kind |-> kind, names |-> names,
     min_count |-> min_count, max_count |-> max_count]

\* the positional argument is built with no flag set; the named kinds are assignable by name
is_assignable_by_name(argument) == argument.kind \in {"SWITCH", "VALUED", "EXCLUSIVE"}

Repository(arguments, subparsers, names) ==
    [arguments |-> arguments, subparsers |-> subparsers, names |-> names]

EmptyRepository == Repository(<<>>, NoArg, <<>>)

\* the identity of the next definition the repository creates
NewId(repo) == Len(repo.arguments) + (IF repo.subparsers = NoArg THEN 0 ELSE 1) + 1

----------------------------------------------------------------------------
(* basic_argument_repository: name checks *)

\* a bug: the sub-command separator is not looked for
ensure_name_characters_valid_no_subparser_check(name) ==
    /\ name # <<>>
    /\ \A i \in DOMAIN name : ~is_space(name[i])
    /\ Find(name, value_separator_literal) = 0

ensure_name_characters_valid(name) ==
    /\ name # <<>>
    /\ \A i \in DOMAIN name : ~is_space(name[i])
    /\ Find(name, value_separator_literal) = 0
    /\ Find(name, subparser_separator_literal) = 0

ensure_names_characters_valid(names) ==
    \A i \in DOMAIN names : ensure_name_characters_valid(names[i])

ensure_no_duplicated_names(names) ==
    \A i \in DOMAIN names : \A j \in DOMAIN names : i < j => names[i] # names[j]

\* a bug: only the first name of the call is looked up
ensure_names_not_registered_first_only(names, names_repository) ==
    names[1] \notin DOMAIN names_repository

ensure_names_not_registered(names, names_repository) ==
    \A i \in DOMAIN names : names[i] \notin DOMAIN names_repository

\* a bug: the names are not looked up in the names already registered
check_names_skips_registered(names, names_repository) ==
    IF Len(names) < 1 THEN "InvalidName"
    ELSE IF ~ensure_names_characters_valid(names) THEN "InvalidName"
    ELSE IF ~ensure_no_duplicated_names(names) THEN "DuplicateName"
    ELSE "ok"

\* "ok", or the error the first failing check raises
check_names(names, names_repository) ==
    IF Len(names) < 1 THEN "InvalidName"
    ELSE IF ~ensure_names_characters_valid(names) THEN "InvalidName"
    ELSE IF ~ensure_no_duplicated_names(names) THEN "DuplicateName"
    ELSE IF ~ensure_names_not_registered(names, names_repository) THEN "DuplicateName"
    ELSE "ok"

\* a bug: only the first alias is entered
add_to_names_repository_first_only(names_repository, argument) ==
    [n \in DOMAIN names_repository \cup {argument.names[1]} |->
        IF n \in DOMAIN names_repository THEN names_repository[n] ELSE argument.id]

\* std::map::emplace keeps an entry that is already there
add_to_names_repository(names_repository, argument) ==
    [n \in DOMAIN names_repository \cup Range(argument.names) |->
        IF n \in DOMAIN names_repository THEN names_repository[n] ELSE argument.id]

\* a bug: the test of the loop is inverted, so that named arguments count as positionals
has_positional_arguments_inverted(arguments) ==
    \E i \in DOMAIN arguments : is_assignable_by_name(arguments[i])

has_positional_arguments(arguments) ==
    \E i \in DOMAIN arguments : ~is_assignable_by_name(arguments[i])

----------------------------------------------------------------------------
(* basic_argument_repository: registration. Each operator gives the        *)
(* repository after the call and the outcome of the call.                  *)

Outcome(repo, res) == [repo |-> repo, result |-> res]

add_exclusive(repo, names, min_count, max_count) ==
    LET chk == check_names(names, repo.names)
        new_argument == Argument(NewId(repo), "EXCLUSIVE", names, min_count, max_count)
    IN  IF chk # "ok" THEN Outcome(repo, chk)
        ELSE Outcome(Repository(Append(repo.arguments, new_argument), repo.subparsers,
                                add_to_names_repository(repo.names, new_argument)), "ok")

add_switch(repo, names, min_count, max_count) ==
    LET chk == check_names(names, repo.names)
        new_argument == Argument(NewId(repo), "SWITCH", names, min_count, max_count)
    IN  IF chk # "ok" THEN Outcome(repo, chk)
        ELSE Outcome(Repository(Append(repo.arguments, new_argument), repo.subparsers,
                                add_to_names_repository(repo.names, new_argument)), "ok")

add_valued(repo, names, min_count, max_count) ==
    LET chk == check_names(names, repo.names)
        new_argument == Argument(NewId(repo), "VALUED", names, min_count, max_count)
    IN  IF chk # "ok" THEN Outcome(repo, chk)
        ELSE Outcome(Repository(Append(repo.arguments, new_argument), repo.subparsers,
                                add_to_names_repository(repo.names, new_argument)), "ok")

\* a bug: the name is entered before the sub-command-dispatcher is looked for
add_positional_names_first(repo, name, min_count, max_count) ==
    LET names == <<name>>
        chk == check_names(names, repo.names)
        new_argument == Argument(NewId(repo), "POSITIONAL", names, min_count, max_count)
        entered == Repository(repo.arguments, repo.subparsers,
                              add_to_names_repository(repo.names, new_argument))
    IN  IF chk # "ok" THEN Outcome(repo, chk)
        ELSE IF repo.subparsers # NoArg THEN Outcome(entered, "StructuralConflict")
        ELSE Outcome(Repository(Append(repo.arguments, new_argument), repo.subparsers,
                                entered.names), "ok")

add_positional(repo, name, min_count, max_count) ==
    LET names == <<name>>
        chk == check_names(names, repo.names)
        new_argument == Argument(NewId(repo), "POSITIONAL", names, min_count, max_count)
    IN  IF chk # "ok" THEN Outcome(repo, chk)
        ELSE IF repo.subparsers # NoArg THEN Outcome(repo, "StructuralConflict")
        ELSE Outcome(Repository(Append(repo.arguments, new_argument), repo.subparsers,
                                add_to_names_repository(repo.names, new_argument)), "ok")

add_subparsers(repo, name) ==
    LET names == <<name>>
        chk == check_names(names, repo.names)
        new_argument == Argument(NewId(repo), "SUBPARSER", names, 0, 1)
    IN  IF chk # "ok" THEN Outcome(repo, chk)
        ELSE IF repo.subparsers # NoArg THEN Outcome(repo, "StructuralConflict")
        ELSE IF has_positional_arguments(repo.arguments)
            THEN Outcome(repo, "StructuralConflict")
        ELSE Outcome(Repository(repo.arguments, new_argument,
                                add_to_names_repository(repo.names, new_argument)), "ok")

----------------------------------------------------------------------------
(* Argument table and results data *)

\* tokens offered to parse: names, inline values (empty, plain, holding a
\* separator) and a token whose name part is empty
TokenPool ==
    { <<"a">>, <<"b">>, <<"a", "=", "b">>, <<"a", "=">>,
      <<"a", "=", "=">>, <<"=", "b">> }

TokenSeqs == SeqsUpTo(TokenPool, MaxTokens)

ArgumentIds(repo) == 1..(NewId(repo) - 1)

\* every definition the repository owns
AllArguments(repo) ==
    Range(repo.arguments) \cup (IF repo.subparsers = NoArg THEN {} ELSE {repo.subparsers})

ArgumentById(repo, id) == CHOOSE arg \in AllArguments(repo) : arg.id = id

\* the positional arguments in registration order
m_positional_arguments(repo) ==
    SelectSeq(repo.arguments, LAMBDA arg : arg.kind = "POSITIONAL")

is_required(argument) == argument.min_count > 0

\* the state of one parse call
ParseState(toks, p, vals, iter, where, res) ==
    [tokens |-> toks, pos |-> p, values |-> vals, arg_iter |-> iter,
     pc |-> where, result |-> res]

has_more(ps) == ps.pos < Len(ps.tokens)
peek_next(ps) == ps.tokens[ps.pos + 1]
take_next(ps) == [ps EXCEPT !.pos = @ + 1]
value_count(ps, argument) == Len(ps.values[argument.id])

\* throw parse_exception
Throw(ps, error) == [ps EXCEPT !.pc = "done", !.result = error]

----------------------------------------------------------------------------
(* basic_parser: the parsing engine *)

\* a bug: the value is put in front of the values recorded before
parse_argument_value_prepends(ps, argument, value_str) ==
    IF value_count(ps, argument) >= argument.max_count
        THEN Throw(ps, "TooManyOccurrences")
        ELSE [ps EXCEPT !.values[argument.id] = <<value_str>> \o @]

\* a bug: the count is compared with > where the code has >=
parse_argument_value_off_by_one(ps, argument, value_str) ==
    IF value_count(ps, argument) > argument.max_count
        THEN Throw(ps, "TooManyOccurrences")
        ELSE [ps EXCEPT !.values[argument.id] = Append(@, value_str)]

parse_argument_value(ps, argument, value_str) ==
    IF value_count(ps, argument) >= argument.max_count
        THEN Throw(ps, "TooManyOccurrences")
        ELSE [ps EXCEPT !.values[argument.id] = Append(@, value_str)]

\* the parse state after the call, and the value returned (TRUE: a named
\* argument was parsed); an exception leaves ps.pc = "done"
Returned(ps, matched) == [ps |-> ps, matched |-> matched]

\* input_value.substr(0, equal_char_pos)
name_str_of(input_value, equal_char_pos) == SubSeq(input_value, 1, equal_char_pos - 1)

\* a bug: the value starts at the separator, not after it
value_str_of_with_separator(input_value, equal_char_pos) ==
    SubSeq(input_value, equal_char_pos, Len(input_value))

\* input_value.substr(equal_char_pos + 1)
value_str_of(input_value, equal_char_pos) ==
    SubSeq(input_value, equal_char_pos + 1, Len(input_value))

\* a bug: the name token is recorded where the code records the token after it
named_without_value_records_name(repo, ps, input_value) ==
    IF input_value \notin DOMAIN repo.names
    THEN Returned(ps, FALSE)
    ELSE LET arg_object == ArgumentById(repo, repo.names[input_value])
         IN  CASE arg_object.kind = "VALUED" ->
                   LET taken == take_next(ps)
                   IN  IF ~has_more(taken)
                       THEN Returned(Throw(taken, "MissingValue"), FALSE)
                       ELSE Returned(parse_argument_value(take_next(taken), arg_object,
                                                          input_value), TRUE)
               [] arg_object.kind = "SWITCH" ->
                   Returned(parse_argument_value(take_next(ps), arg_object,
                                                 switch_enabled_literal), TRUE)
               [] OTHER -> Returned(ps, FALSE)

\* a bug: the token after the name is looked up, and a registered name is not
\* accepted as a value
named_without_value_looks_up_value(repo, ps, input_value) ==
    IF input_value \notin DOMAIN repo.names
    THEN Returned(ps, FALSE)
    ELSE LET arg_object == ArgumentById(repo, repo.names[input_value])
         IN  CASE arg_object.kind = "VALUED" ->
                   LET taken == take_next(ps)
                   IN  IF ~has_more(taken) \/ peek_next(taken) \in DOMAIN repo.names
                       THEN Returned(Throw(taken, "MissingValue"), FALSE)
                       ELSE Returned(parse_argument_value(take_next(taken), arg_object,
                                                          peek_next(taken)), TRUE)
               [] arg_object.kind = "SWITCH" ->
                   Returned(parse_argument_value(take_next(ps), arg_object,
                                                 switch_enabled_literal), TRUE)
               [] OTHER -> Returned(ps, FALSE)

\* the branch of a token that holds no value separator
named_without_value(repo, ps, input_value) ==
    IF input_value \notin DOMAIN repo.names
    THEN Returned(ps, FALSE)
    ELSE LET arg_object == ArgumentById(repo, repo.names[input_value])
         IN  CASE arg_object.kind = "VALUED" ->
                   LET taken == take_next(ps)
                   IN  IF ~has_more(taken)
                       THEN Returned(Throw(taken, "MissingValue"), FALSE)
                       ELSE Returned(parse_argument_value(take_next(taken), arg_object,
                                                          peek_next(taken)), TRUE)
               [] arg_object.kind = "SWITCH" ->
                   Returned(parse_argument_value(take_next(ps), arg_object,
                                                 switch_enabled_literal), TRUE)
               [] OTHER -> Returned(ps, FALSE)

\* a bug: the count of the argument is compared with its maximum before the
\* kind decides what to do with the inline value
named_with_value_arity_first(repo, ps, input_value, equal_char_pos) ==
    LET name_str == name_str_of(input_value, equal_char_pos)
    IN  IF name_str \notin DOMAIN repo.names
        THEN Returned(ps, FALSE)
        ELSE LET value_str == value_str_of(input_value, equal_char_pos)
                 arg_object == ArgumentById(repo, repo.names[name_str])
             IN  CASE arg_object.kind = "VALUED" ->
                       Returned(parse_argument_value(take_next(ps), arg_object,
                                                     value_str), TRUE)
                   [] arg_object.kind = "SWITCH" ->
                       IF value_count(ps, arg_object) >= arg_object.max_count
                       THEN Returned(Throw(take_next(ps), "TooManyOccurrences"), FALSE)
                       ELSE Returned(Throw(take_next(ps), "UnexpectedValue"), FALSE)
                   [] OTHER -> Returned(ps, FALSE)

\* a bug: a switch takes the inline value where the code throws
named_with_value_switch_accepts(repo, ps, input_value, equal_char_pos) ==
    LET name_str == name_str_of(input_value, equal_char_pos)
    IN  IF name_str \notin DOMAIN repo.names
        THEN Returned(ps, FALSE)
        ELSE LET value_str == value_str_of(input_value, equal_char_pos)
                 arg_object == ArgumentById(repo, repo.names[name_str])
             IN  CASE arg_object.kind \in {"VALUED", "SWITCH"} ->
                       Returned(parse_argument_value(take_next(ps), arg_object,
                                                     value_str), TRUE)
                   [] OTHER -> Returned(ps, FALSE)

\* the branch of a token that holds the value separator
named_with_value(repo, ps, input_value, equal_char_pos) ==
    LET name_str == name_str_of(input_value, equal_char_pos)
    IN  IF name_str \notin DOMAIN repo.names
        THEN Returned(ps, FALSE)
        ELSE LET value_str == value_str_of(input_value, equal_char_pos)
                 arg_object == ArgumentById(repo, repo.names[name_str])
             IN  CASE arg_object.kind = "VALUED" ->
                       Returned(parse_argument_value(take_next(ps), arg_object,
                                                     value_str), TRUE)
                   [] arg_object.kind = "SWITCH" ->
                       Returned(Throw(take_next(ps), "UnexpectedValue"), FALSE)
                   [] OTHER -> Returned(ps, FALSE)

\* a bug: the token is split at the last value separator
parse_named_argument_last_separator(repo, ps) ==
    LET input_value == peek_next(ps)
        places == { i \in DOMAIN input_value : input_value[i] = "=" }
        equal_char_pos == IF places = {} THEN 0
                          ELSE CHOOSE i \in places : \A j \in places : j <= i
    IN  IF equal_char_pos = 0
        THEN named_without_value(repo, ps, input_value)
        ELSE named_with_value(repo, ps, input_value, equal_char_pos)

parse_named_argument(repo, ps) ==
    LET input_value == peek_next(ps)
        equal_char_pos == Find(input_value, value_separator_literal)
    IN  IF equal_char_pos = 0
        THEN named_without_value(repo, ps, input_value)
        ELSE named_with_value(repo, ps, input_value, equal_char_pos)

\* a bug: the loop does not break at a token that names no switch or valued
\* argument and looks at it again
parse_named_arguments_no_break(repo, ps) ==
    IF ~has_more(ps) THEN [ps EXCEPT !.pc = "positional"]
    ELSE LET r == parse_named_argument(repo, ps)
         IN  IF r.ps.pc = "done" THEN r.ps
             ELSE IF ~r.matched THEN ps
             ELSE r.ps

\* a bug: a token that names no switch or valued argument is skipped and the
\* loop goes on
parse_named_arguments_skips_unmatched(repo, ps) ==
    IF ~has_more(ps) THEN [ps EXCEPT !.pc = "positional"]
    ELSE LET r == parse_named_argument(repo, ps)
         IN  IF r.ps.pc = "done" THEN r.ps
             ELSE IF ~r.matched THEN take_next(ps)
             ELSE r.ps

\* one turn of the loop of parse_named_arguments
parse_named_arguments(repo, ps) ==
    IF ~has_more(ps) THEN [ps EXCEPT !.pc = "positional"]
    ELSE LET r == parse_named_argument(repo, ps)
         IN  IF r.ps.pc = "done" THEN r.ps
             ELSE IF ~r.matched THEN [ps EXCEPT !.pc = "positional"]
             ELSE r.ps

\* a bug: the slot advances after every recorded value
parse_positional_arguments_always_advances(repo, ps) ==
    LET slots == m_positional_arguments(repo)
    IN  IF ~has_more(ps) THEN [ps EXCEPT !.pc = "required"]
        ELSE IF ps.arg_iter > Len(slots) THEN Throw(ps, "UnexpectedArgument")
        ELSE LET arg_object == slots[ps.arg_iter]
                 after == parse_argument_value(take_next(ps), arg_object, peek_next(ps))
             IN  IF after.pc = "done" THEN after
                 ELSE [after EXCEPT !.arg_iter = @ + 1]

\* a bug: a token that finds no slot is taken and dropped
parse_positional_arguments_drops_extra(repo, ps) ==
    LET slots == m_positional_arguments(repo)
    IN  IF ~has_more(ps) THEN [ps EXCEPT !.pc = "required"]
        ELSE IF ps.arg_iter > Len(slots) THEN take_next(ps)
        ELSE LET arg_object == slots[ps.arg_iter]
                 after == parse_argument_value(take_next(ps), arg_object, peek_next(ps))
             IN  IF after.pc = "done" THEN after
                 ELSE IF arg_object.max_count = 1
                     THEN [after EXCEPT !.arg_iter = @ + 1]
                 ELSE after

\* one turn of the first loop of parse_positional_arguments
parse_positional_arguments(repo, ps) ==
    LET slots == m_positional_arguments(repo)
    IN  IF ~has_more(ps) THEN [ps EXCEPT !.pc = "required"]
        ELSE IF ps.arg_iter > Len(slots) THEN Throw(ps, "UnexpectedArgument")
        ELSE LET arg_object == slots[ps.arg_iter]
                 after == parse_argument_value(take_next(ps), arg_object, peek_next(ps))
             IN  IF after.pc = "done" THEN after
                 ELSE IF arg_object.max_count = 1
                     THEN [after EXCEPT !.arg_iter = @ + 1]
                 ELSE after

\* a bug: the loop ends at the first slot that is not required
check_required_arguments_stops_at_optional(repo, ps) ==
    LET slots == m_positional_arguments(repo)
    IN  IF ps.arg_iter > Len(slots) THEN [ps EXCEPT !.pc = "done", !.result = "ok"]
        ELSE LET arg_object == slots[ps.arg_iter]
             IN  IF ~is_required(arg_object) THEN [ps EXCEPT !.pc = "done", !.result = "ok"]
                 ELSE IF value_count(ps, arg_object) = 0
                     THEN Throw(ps, "RequiredArgumentMissing")
                 ELSE [ps EXCEPT !.arg_iter = @ + 1]

\* one turn of the second loop of parse_positional_arguments, then the return of parse
check_required_arguments(repo, ps) ==
    LET slots == m_positional_arguments(repo)
    IN  IF ps.arg_iter > Len(slots) THEN [ps EXCEPT !.pc = "done", !.result = "ok"]
        ELSE LET arg_object == slots[ps.arg_iter]
             IN  IF ~is_required(arg_object) THEN [ps EXCEPT !.arg_iter = @ + 1]
                 ELSE IF value_count(ps, arg_object) = 0
                     THEN Throw(ps, "RequiredArgumentMissing")
                 ELSE [ps EXCEPT !.arg_iter = @ + 1]

\* a bug: the recorded values are kept in the parser, not in the call: a call
\* starts from the values of the call in progress
parse_shares_results(repo, arg_table) ==
    ParseState(arg_table, 0,
               IF DOMAIN values = ArgumentIds(repo)
                   THEN values ELSE [id \in ArgumentIds(repo) |-> <<>>],
               1, "named", "running")

\* basic_parser::parse: the state a parse call starts in
parse(repo, arg_table) ==
    ParseState(arg_table, 0, [id \in ArgumentIds(repo) |-> <<>>], 1, "named", "running")

\* one step of a parse call
ParseStep(repo, ps) ==
    CASE ps.pc = "named" -> parse_named_arguments(repo, ps)
      [] ps.pc = "positional" -> parse_positional_arguments(repo, ps)
      [] ps.pc = "required" -> check_required_arguments(repo, ps)
      [] OTHER -> ps

\* a parse call run to its return or its exception
RECURSIVE ParseRun(_, _)
ParseRun(repo, ps) == IF ps.pc = "done" THEN ps ELSE ParseRun(repo, ParseStep(repo, ps))

----------------------------------------------------------------------------
(* State *)

Repo == Repository(m_arguments, m_subparsers_argument, m_names_repository)

NoCall == [op |-> "none", names |-> <<>>]

\* no parse call in progress
NoParse == ParseState(<<>>, 0, <<>>, 1, "idle", "none")

Init ==
    /\ m_arguments = <<>>
    /\ m_subparsers_argument = NoArg
    /\ m_names_repository = <<>>
    /\ pc = "idle"
    /\ call = NoCall
    /\ result = "none"
    /\ tokens = <<>>
    /\ pos = 0
    /\ values = <<>>
    /\ arg_iter = 1
    /\ other = NoParse

\* a registration call runs to its return or its exception
Registered(op, names, out) ==
    /\ m_arguments' = out.repo.arguments
    /\ m_subparsers_argument' = out.repo.subparsers
    /\ m_names_repository' = out.repo.names
    /\ pc' = "returned"
    /\ call' = [op |-> op, names |-> names]
    /\ result' = out.result
    /\ UNCHANGED <<parse_vars, other>>

AddExclusive ==
    /\ pc = "idle"
    /\ \E names \in NameVectors :
            Registered("add_exclusive", names, add_exclusive(Repo, names, 0, 1))

AddSwitch ==
    /\ pc = "idle"
    /\ \E names \in NameVectors : \E max_count \in 1..MaxCount :
            Registered("add_switch", names, add_switch(Repo, names, 0, max_count))

AddValued ==
    /\ pc = "idle"
    /\ \E names \in NameVectors : \E max_count \in 1..MaxCount :
            Registered("add_valued", names, add_valued(Repo, names, 0, max_count))

\* set_min_count takes any count; the engine reads it through is_required
\* only, so one minimum above zero per maximum stands for all of them
AddPositional ==
    /\ pc = "idle"
    /\ \E name \in NamePool : \E max_count \in 1..MaxCount : \E min_count \in {0, max_count} :
            Registered("add_positional", <<name>>, add_positional(Repo, name, min_count, max_count))

AddSubparsers ==
    /\ pc = "idle"
    /\ \E name \in NamePool :
            Registered("add_subparsers", <<name>>, add_subparsers(Repo, name))

\* the caller has seen the outcome of the registration call and goes on
Return ==
    /\ pc = "returned"
    /\ pc' = "idle"
    /\ call' = NoCall
    /\ result' = "none"
    /\ UNCHANGED <<repo_vars, parse_vars, other>>

PS == ParseState(tokens, pos, values, arg_iter, pc, result)

Becomes(ps) ==
    /\ tokens' = ps.tokens
    /\ pos' = ps.pos
    /\ values' = ps.values
    /\ arg_iter' = ps.arg_iter
    /\ pc' = ps.pc
    /\ result' = ps.result

StartParse ==
    /\ pc = "idle"
    /\ \E arg_table \in TokenSeqs : Becomes(parse(Repo, arg_table))
    /\ call' = [op |-> "parse", names |-> <<>>]
    /\ UNCHANGED <<repo_vars, other>>

ParseNamed ==
    /\ pc = "named"
    /\ Becomes(parse_named_arguments(Repo, PS))
    /\ UNCHANGED <<repo_vars, call, other>>

ParsePositional ==
    /\ pc = "positional"
    /\ Becomes(parse_positional_arguments(Repo, PS))
    /\ UNCHANGED <<repo_vars, call, other>>

CheckRequired ==
    /\ pc = "required"
    /\ Becomes(check_required_arguments(Repo, PS))
    /\ UNCHANGED <<repo_vars, call, other>>

\* the caller drops the results (or has caught the exception) and goes on
DiscardResults ==
    /\ pc = "done"
    /\ pc' = "idle"
    /\ call' = NoCall
    /\ result' = "none"
    /\ tokens' = <<>>
    /\ pos' = 0
    /\ values' = <<>>
    /\ arg_iter' = 1
    /\ UNCHANGED <<repo_vars, other>>

Next ==
    \/ AddExclusive
    \/ AddSwitch
    \/ AddValued
    \/ AddPositional
    \/ AddSubparsers
    \/ Return
    \/ StartParse
    \/ ParseNamed
    \/ ParsePositional
    \/ CheckRequired
    \/ DiscardResults

Spec == Init /\ [][Next]_vars


----------------------------------------------------------------------------
(* Two parse calls in progress at once on one parser *)

\* a parser with the valued argument a and a second argument b, a switch or
\* a positional
ConcurrentRepositories ==
    LET first == { add_valued(EmptyRepository, << <<"a">> >>, 0, m).repo : m \in 1..MaxCount }
    IN  UNION { { add_switch(r, << <<"b">> >>, 0, r.arguments[1].max_count).repo }
                \cup { add_positional(r, <<"b">>, n, r.arguments[1].max_count).repo : n \in 0..1 }
                : r \in first }

ConcurrentTokenSeqs == SeqsUpTo(TokenPool, MaxConcurrentTokens)

ConcurrentInit ==
    /\ \E repo \in ConcurrentRepositories :
          /\ m_arguments = repo.arguments
          /\ m_subparsers_argument = repo.subparsers
          /\ m_names_repository = repo.names
    /\ pc = "idle"
    /\ call = NoCall
    /\ result = "none"
    /\ tokens = <<>>
    /\ pos = 0
    /\ values = <<>>
    /\ arg_iter = 1
    /\ other = NoParse

StartFirstCall ==
    /\ pc = "idle"
    /\ \E arg_table \in ConcurrentTokenSeqs : Becomes(parse(Repo, arg_table))
    /\ call' = [op |-> "parse", names |-> <<>>]
    /\ UNCHANGED <<repo_vars, other>>

StartSecondCall ==
    /\ other.pc = "idle"
    /\ \E arg_table \in ConcurrentTokenSeqs : other' = parse(Repo, arg_table)
    /\ UNCHANGED <<repo_vars, pc, call, result, parse_vars>>

\* one step of the second call
SecondCallStep ==
    /\ other.pc \in {"named", "positional", "required"}
    /\ other' = ParseStep(Repo, other)
    /\ UNCHANGED <<repo_vars, pc, call, result, parse_vars>>

\* the caller of the second call drops its results (or has caught its exception)
SecondCallDiscard ==
    /\ other.pc = "done"
    /\ other' = NoParse
    /\ UNCHANGED <<repo_vars, pc, call, result, parse_vars>>

ConcurrentNext ==
    \/ StartFirstCall
    \/ ParseNamed
    \/ ParsePositional
    \/ CheckRequired
    \/ DiscardResults
    \/ StartSecondCall
    \/ SecondCallStep
    \/ SecondCallDiscard

ConcurrentSpec == ConcurrentInit /\ [][ConcurrentNext]_vars

----------------------------------------------------------------------------
(* Parse calls, one after the other, on a parser that is set up *)

\* five parsers: a valued argument and a required single-value positional; a
\* valued argument and an optional multi-value positional; a switch and a
\* valued argument; two positionals; a switch and a required multi-value
\* positional
FairRepositories ==
    LET valued_a(m) == add_valued(EmptyRepository, << <<"a">> >>, 0, m).repo
        switch_a == add_switch(EmptyRepository, << <<"a">> >>, 0, 1).repo
        positional_a == add_positional(EmptyRepository, <<"a">>, 1, 1).repo
    IN  { add_positional(valued_a(1), <<"b">>, 1, 1).repo,
          add_positional(valued_a(MaxCount), <<"b">>, 0, MaxCount).repo,
          add_valued(switch_a, << <<"b">> >>, 0, MaxCount).repo,
          add_positional(positional_a, <<"b">>, 0, MaxCount).repo,
          add_positional(switch_a, <<"b">>, MaxCount, MaxCount).repo }

FairTokenSeqs == SeqsUpTo(TokenPool, MaxFairTokens)

FairInit ==
    /\ \E repo \in FairRepositories :
          /\ m_arguments = repo.arguments
          /\ m_subparsers_argument = repo.subparsers
          /\ m_names_repository = repo.names
    /\ pc = "idle"
    /\ call = NoCall
    /\ result = "none"
    /\ tokens = <<>>
    /\ pos = 0
    /\ values = <<>>
    /\ arg_iter = 1
    /\ other = NoParse

StartFairParse ==
    /\ pc = "idle"
    /\ \E arg_table \in FairTokenSeqs : Becomes(parse(Repo, arg_table))
    /\ call' = [op |-> "parse", names |-> <<>>]
    /\ UNCHANGED <<repo_vars, other>>

FairNext ==
    \/ StartFairParse
    \/ ParseNamed
    \/ ParsePositional
    \/ CheckRequired
    \/ DiscardResults

\* parse is one sequential call: a loop turn that can be taken is taken
FairSpec ==
    /\ FairInit /\ [][FairNext]_vars
    /\ WF_vars(ParseNamed)
    /\ WF_vars(ParsePositional)
    /\ WF_vars(CheckRequired)

----------------------------------------------------------------------------
(* basic_parser: its own registration calls (parser.hpp) *)

\* basic_parser::ensure_name_characters_valid: it looks for whitespace and
\* for the equal character only
basic_parser_ensure_name_characters_valid(name) ==
    /\ name # <<>>
    /\ \A i \in DOMAIN name : ~is_space(name[i]) /\ name[i] # "="

\* basic_parser::check_names
basic_parser_check_names(names, names_repository) ==
    IF Len(names) < 1 THEN "InvalidName"
    ELSE IF \E i \in DOMAIN names : ~basic_parser_ensure_name_characters_valid(names[i])
        THEN "InvalidName"
    ELSE IF ~ensure_no_duplicated_names(names) THEN "DuplicateName"
    ELSE IF ~ensure_names_not_registered(names, names_repository) THEN "DuplicateName"
    ELSE "ok"

\* positional_argument_type(names, required, multivalue): a required argument
\* has minimum count 1, a multivalue argument a maximum count above 1
positional_argument_type(id, names, required, multivalue) ==
    Argument(id, "POSITIONAL", names,
             IF required THEN 1 ELSE 0, IF multivalue THEN MaxCount ELSE 1)

\* basic_parser::add_switch and basic_parser::add_valued
basic_parser_add_named(repo, kind, names) ==
    LET chk == basic_parser_check_names(names, repo.names)
        new_argument == Argument(NewId(repo), kind, names, 0, 1)
    IN  IF chk # "ok" THEN Outcome(repo, chk)
        ELSE Outcome(Repository(Append(repo.arguments, new_argument), repo.subparsers,
                                add_to_names_repository(repo.names, new_argument)), "ok")

\* a bug: only the optional last positional is looked for
basic_parser_add_positional_no_multivalue_check(repo, name, required, multivalue) ==
    LET names == <<name>>
        chk == basic_parser_check_names(names, repo.names)
        positionals == m_positional_arguments(repo)
        new_argument == positional_argument_type(NewId(repo), names, required, multivalue)
    IN  IF chk # "ok" THEN Outcome(repo, chk)
        ELSE IF positionals # <<>> /\ ~is_required(positionals[Len(positionals)])
            THEN Outcome(repo, "OptionalPositionalAlreadyAdded")
        ELSE Outcome(Repository(Append(repo.arguments, new_argument), repo.subparsers,
                                add_to_names_repository(repo.names, new_argument)), "ok")

\* basic_parser::add_positional
basic_parser_add_positional(repo, name, required, multivalue) ==
    LET names == <<name>>
        chk == basic_parser_check_names(names, repo.names)
        positionals == m_positional_arguments(repo)
        new_argument == positional_argument_type(NewId(repo), names, required, multivalue)
    IN  IF chk # "ok" THEN Outcome(repo, chk)
        ELSE IF positionals # <<>> /\ ~is_required(positionals[Len(positionals)])
            THEN Outcome(repo, "OptionalPositionalAlreadyAdded")
        ELSE IF positionals # <<>> /\ positionals[Len(positionals)].max_count > 1
            THEN Outcome(repo, "MultivaluePositionalAlreadyAdded")
        ELSE Outcome(Repository(Append(repo.arguments, new_argument), repo.subparsers,
                                add_to_names_repository(repo.names, new_argument)), "ok")

ParserAddSwitch ==
    /\ pc = "idle"
    /\ \E names \in NameVectors :
            Registered("add_switch", names, basic_parser_add_named(Repo, "SWITCH", names))

ParserAddValued ==
    /\ pc = "idle"
    /\ \E names \in NameVectors :
            Registered("add_valued", names, basic_parser_add_named(Repo, "VALUED", names))

ParserAddPositional ==
    /\ pc = "idle"
    /\ \E name \in NamePool : \E required, multivalue \in BOOLEAN :
            Registered("add_positional", <<name>>,
                       basic_parser_add_positional(Repo, name, required, multivalue))

ParserNext ==
    \/ ParserAddSwitch
    \/ ParserAddValued
    \/ ParserAddPositional
    \/ Return

ParserSpec == Init /\ [][ParserNext]_vars

----------------------------------------------------------------------------
(* Vocabulary of the properties *)

\* a name as section 3 of the specification wants it
ValidName(n) == n # <<>> /\ \A i \in DOMAIN n : n[i] \notin {" ", "=", "/"}

ConfigurationErrors == {"InvalidName", "DuplicateName", "StructuralConflict"}

\* a step that is one registration call, from the call to its return or exception
RegistrationCall == pc = "idle" /\ pc' = "returned"

\* the call of this step names a name the Name Table already holds
NamesOverlap == \E i \in DOMAIN call'.names : call'.names[i] \in DOMAIN m_names_repository

HasPositional == \E i \in DOMAIN m_arguments : m_arguments[i].kind = "POSITIONAL"

HasSubparsers == m_subparsers_argument # NoArg

\* the call of this step is one the structure of the repository forbids
StructurallyForbidden ==
    \/ call'.op = "add_positional" /\ HasSubparsers
    \/ call'.op = "add_subparsers" /\ (HasSubparsers \/ HasPositional)

\* the kind of definition each registration call creates
KindOf(op) ==
    CASE op = "add_switch" -> "SWITCH"
      [] op = "add_valued" -> "VALUED"
      [] op = "add_exclusive" -> "EXCLUSIVE"
      [] op = "add_positional" -> "POSITIONAL"
      [] op = "add_subparsers" -> "SUBPARSER"
      [] OTHER -> "NONE"

----------------------------------------------------------------------------
(* Properties of registration *)

\* C1 as stated: a registration call that names a name an earlier successful
\* call registered fails with DuplicateName, whatever the kinds.
C1_DuplicateNameAlways ==
    [][(RegistrationCall /\ NamesOverlap) => result' = "DuplicateName"]_vars

\* C1 as amended: such a call always fails; it fails with DuplicateName when
\* every name of the call is valid, and with InvalidName otherwise, because the
\* characters of the names are checked before the Name Table is searched.
C1_DuplicateNameUnlessInvalid ==
    [][(RegistrationCall /\ NamesOverlap) =>
         result' = (IF \A i \in DOMAIN call'.names : ValidName(call'.names[i])
                    THEN "DuplicateName" ELSE "InvalidName")]_vars

\* C1 witness: a valued argument whose second name is owned by a switch, and
\* whose first name is new, was refused.
C1_Witness ==
    /\ pc = "returned" /\ result = "DuplicateName"
    /\ call.op = "add_valued" /\ Len(call.names) = 2
    /\ call.names[1] \notin DOMAIN m_names_repository
    /\ \E i \in DOMAIN m_arguments :
          m_arguments[i].kind = "SWITCH" /\ call.names[2] \in Range(m_arguments[i].names)

\* C2 as stated: no repository holds a positional and a sub-command-dispatcher
\* together, and add_positional after add_subparsers, add_subparsers after
\* add_positional and a second add_subparsers each fail with StructuralConflict.
C2_StructuralConflictAlways ==
    [][/\ ~(HasPositional' /\ HasSubparsers')
       /\ (RegistrationCall /\ StructurallyForbidden) => result' = "StructuralConflict"]_vars

\* C2 as amended: the two never coexist and each of the three calls fails; it
\* fails with StructuralConflict when its name passes the name checks, and with
\* the error of the name checks (InvalidName, DuplicateName) otherwise.
C2_NeverCoexist ==
    [][/\ ~(HasPositional' /\ HasSubparsers')
       /\ (RegistrationCall /\ StructurallyForbidden) =>
            /\ UNCHANGED m_subparsers_argument
            /\ result' = (IF ~ValidName(call'.names[1]) THEN "InvalidName"
                          ELSE IF NamesOverlap THEN "DuplicateName"
                          ELSE "StructuralConflict")]_vars

\* C2 witness: a sub-command-dispatcher was refused because a positional is there.
C2_Witness ==
    /\ pc = "returned" /\ result = "StructuralConflict"
    /\ call.op = "add_subparsers" /\ HasPositional /\ ~HasSubparsers

\* C3: a registration call that fails with a configuration-time error leaves
\* the Name Table, the definition sequence and the sub-command-dispatcher as
\* they were, so no name resolves that did not resolve before.
C3_FailedCallChangesNothing ==
    [][(RegistrationCall /\ result' \in ConfigurationErrors) =>
          /\ UNCHANGED <<m_arguments, m_subparsers_argument, m_names_repository>>
          /\ DOMAIN m_names_repository' = DOMAIN m_names_repository]_vars

\* C3 witness: a positional with a new, valid name was refused by a repository
\* that holds a sub-command-dispatcher, and its name does not resolve.
C3_Witness ==
    /\ pc = "returned" /\ result = "StructuralConflict"
    /\ call.op = "add_positional" /\ HasSubparsers
    /\ call.names[1] \notin DOMAIN m_names_repository

\* C4: a call with a valid name set without repetition that shares no name with
\* the Name Table, and that the structure does not forbid, succeeds; afterwards
\* every alias resolves to the one definition the call created.
C4_ValidNamesRegister ==
    [][(/\ RegistrationCall
        /\ call'.names # <<>>
        /\ \A i \in DOMAIN call'.names : ValidName(call'.names[i])
        /\ \A i, j \in DOMAIN call'.names : i # j => call'.names[i] # call'.names[j]
        /\ ~NamesOverlap
        /\ ~StructurallyForbidden) =>
          /\ result' = "ok"
          /\ \E id \in 1..(Len(m_arguments') + 1) :
                /\ \A arg \in Range(m_arguments) \cup {m_subparsers_argument} : arg.id # id
                /\ \A i \in DOMAIN call'.names :
                      /\ call'.names[i] \in DOMAIN m_names_repository'
                      /\ m_names_repository'[call'.names[i]] = id
                /\ \E arg \in Range(m_arguments') \cup {m_subparsers_argument'} :
                      /\ arg.id = id
                      /\ arg.names = call'.names
                      /\ arg.kind = KindOf(call'.op)]_vars

\* C4 witness: a second definition was registered under two aliases.
C4_Witness ==
    /\ pc = "returned" /\ result = "ok" /\ Len(call.names) = 2
    /\ m_names_repository[call.names[1]] = m_names_repository[call.names[2]]

----------------------------------------------------------------------------
(* Vocabulary of the properties of parsing *)

HasSeparator(t) == "=" \in Range(t)

\* the place of the first value separator of a token that has one
SeparatorIndex(t) ==
    CHOOSE i \in DOMAIN t : t[i] = "=" /\ \A j \in 1..(i - 1) : t[j] # "="

NamePart(t) == IF HasSeparator(t) THEN SubSeq(t, 1, SeparatorIndex(t) - 1) ELSE t

InlineValue(t) == SubSeq(t, SeparatorIndex(t) + 1, Len(t))

\* the definition a registered name resolves to
Owner(n) == ArgumentById(Repo, m_names_repository[n])

Resolves(n, kind) == n \in DOMAIN m_names_repository /\ Owner(n).kind = kind

\* the recorded-value count of a definition (none outside a parse)
Count(arg) == IF arg.id \in DOMAIN values THEN Len(values[arg.id]) ELSE 0

Positionals == SelectSeq(m_arguments, LAMBDA arg : arg.kind = "POSITIONAL")

RequiredPositionalRegistered ==
    \E i \in DOMAIN m_arguments :
        m_arguments[i].kind = "POSITIONAL" /\ m_arguments[i].min_count > 0

\* the named phase is about to look at a token
AtNamedToken == pc = "named" /\ pos < Len(tokens)

\* the step about to be taken records a value for arg
Recording(arg) ==
    \/ /\ AtNamedToken
       /\ LET t == tokens[pos + 1]
          IN  /\ NamePart(t) \in DOMAIN m_names_repository
              /\ Owner(NamePart(t)) = arg
              /\ \/ arg.kind = "VALUED" /\ (HasSeparator(t) \/ pos + 1 < Len(tokens))
                 \/ arg.kind = "SWITCH" /\ ~HasSeparator(t)
    \/ /\ pc = "positional" /\ pos < Len(tokens)
       /\ arg_iter <= Len(Positionals)
       /\ Positionals[arg_iter] = arg

\* the step records value v for arg, or fails on the arity of arg
Records(arg, v) ==
    IF Count(arg) < arg.max_count
    THEN /\ values' = [values EXCEPT ![arg.id] = Append(@, v)]
         /\ result' = "running"
    ELSE /\ values' = values
         /\ pc' = "done"
         /\ result' = "TooManyOccurrences"

\* two parses gave the same Results: the same outcome and the same values
SameResults(p, q) == p.result = q.result /\ p.values = q.values

----------------------------------------------------------------------------
(* Properties of parsing *)

\* C6: recording a value for an argument, named or positional, whose count
\* equals its maximum count fails with TooManyOccurrences, so that no argument
\* ever holds more values than its maximum count.
C6_TooManyOccurrences ==
    [][/\ \A arg \in AllArguments(Repo) : Count(arg)' <= arg.max_count
       /\ \A arg \in AllArguments(Repo) :
            (Recording(arg) /\ Count(arg) = arg.max_count) =>
                /\ pc' = "done"
                /\ result' = "TooManyOccurrences"
                /\ values' = values]_vars

\* C6 witness: a valued argument with maximum count 1 was given a second time.
C6_Witness ==
    /\ pc = "done" /\ result = "TooManyOccurrences"
    /\ \E arg \in Range(m_arguments) :
          arg.kind = "VALUED" /\ arg.max_count = 1 /\ Count(arg) = 1

\* C7: for a registered valued argument named N and a value V, the parse of
\* the one token N=V and the parse of the two tokens N, V give the same
\* Results, in which the value sequence of the argument is [V].
C7_InlineEqualsSeparate ==
    pc = "done" =>
        /\ (/\ Len(tokens) = 1
            /\ HasSeparator(tokens[1])
            /\ Resolves(NamePart(tokens[1]), "VALUED")) =>
              LET n == NamePart(tokens[1])
                  v == InlineValue(tokens[1])
              IN  /\ SameResults(PS, ParseRun(Repo, parse(Repo, <<n, v>>)))
                  /\ values[Owner(n).id] = <<v>>
                  /\ result = (IF RequiredPositionalRegistered
                               THEN "RequiredArgumentMissing" ELSE "ok")
        /\ (/\ Len(tokens) = 2
            /\ Resolves(tokens[1], "VALUED")) =>
              LET n == tokens[1]
                  v == tokens[2]
              IN  /\ SameResults(PS, ParseRun(Repo, parse(Repo, <<n \o <<"=">> \o v>>)))
                  /\ values[Owner(n).id] = <<v>>
                  /\ result = (IF RequiredPositionalRegistered
                               THEN "RequiredArgumentMissing" ELSE "ok")

\* C7 witness: the token a=b was parsed against the valued argument a.
C7_Witness ==
    /\ pc = "done" /\ result = "ok"
    /\ tokens = << <<"a", "=", "b">> >>
    /\ Resolves(<<"a">>, "VALUED")
    /\ values[Owner(<<"a">>).id] = << <<"b">> >>

\* C8: when two members of one exclusive group are given in a parse, the
\* second one fails the parse with ExclusiveConflict. (The members of a group
\* are the names handed to one add_exclusive call.)
C8_ExclusiveConflict ==
    pc = "done" =>
        \A arg \in Range(m_arguments) :
            arg.kind = "EXCLUSIVE" =>
                \A n1, n2 \in Range(arg.names) :
                    (n1 # n2 /\ tokens = <<n1, n2>>) => result = "ExclusiveConflict"

\* C9: in the named phase a token that resolves to a switch is rejected with
\* UnexpectedValue when it carries an inline value; without one the token is
\* taken and the one implicit "enabled" value is recorded (under the arity
\* check of C6), so that the parse of the single token of a switch ends with
\* count 1.
C9_Switch ==
    [][/\ (AtNamedToken /\ Resolves(NamePart(tokens[pos + 1]), "SWITCH")) =>
            IF HasSeparator(tokens[pos + 1])
            THEN /\ pc' = "done"
                 /\ result' = "UnexpectedValue"
                 /\ values' = values
            ELSE /\ pos' = pos + 1
                 /\ Records(Owner(tokens[pos + 1]), switch_enabled_literal)
       /\ (pc' = "done" /\ Len(tokens') = 1 /\ Resolves(tokens'[1], "SWITCH")) =>
            /\ values'[Owner(tokens'[1]).id] = <<switch_enabled_literal>>
            /\ result' = (IF RequiredPositionalRegistered
                          THEN "RequiredArgumentMissing" ELSE "ok")]_vars

\* C9 witness: the single token of a switch was parsed; it is present once.
C9_Witness ==
    /\ pc = "done" /\ result = "ok"
    /\ Len(tokens) = 1 /\ Resolves(tokens[1], "SWITCH")
    /\ Count(Owner(tokens[1])) = 1

\* C10: in the named phase a token without inline value that resolves to a
\* valued argument fails the parse with MissingValue when it is the last
\* token; otherwise it and the token after it are taken, and the token after
\* it is recorded as the value (under the arity check of C6).
C10_ValuedWithoutInline ==
    [][(/\ AtNamedToken
        /\ ~HasSeparator(tokens[pos + 1])
        /\ Resolves(tokens[pos + 1], "VALUED")) =>
            IF pos + 1 = Len(tokens)
            THEN /\ pc' = "done"
                 /\ result' = "MissingValue"
                 /\ values' = values
            ELSE /\ pos' = pos + 2
                 /\ Records(Owner(tokens[pos + 1]), tokens[pos + 2])]_vars

\* C10 witness: a valued argument took the token after it, then was named
\* again as the last token.
C10_Witness ==
    /\ pc = "done" /\ result = "MissingValue"
    /\ Len(tokens) = 3 /\ tokens[3] = tokens[1]
    /\ Resolves(tokens[1], "VALUED")
    /\ values[Owner(tokens[1]).id] = <<tokens[2]>>

\* a required slot from the current one onward has collected no value
RequiredSlotPending ==
    \E i \in arg_iter..Len(Positionals) :
        Positionals[i].min_count > 0 /\ Count(Positionals[i]) = 0

\* C11: once the input is exhausted in the positional phase, the parse fails
\* with RequiredArgumentMissing exactly when some positional slot from the
\* current slot onward has a minimum count greater than zero and has
\* collected no value, and succeeds otherwise; the parse of the empty token
\* sequence against a required positional fails with RequiredArgumentMissing.
C11_RequiredArgumentMissing ==
    [][/\ pc = "required" =>
            /\ values' = values
            /\ pc' \in {"required", "done"}
            /\ pc' = "required" => (RequiredSlotPending' <=> RequiredSlotPending)
            /\ pc' = "done" =>
                  result' = (IF RequiredSlotPending
                             THEN "RequiredArgumentMissing" ELSE "ok")
       /\ (pc' = "done" /\ tokens' = <<>> /\ RequiredPositionalRegistered) =>
            result' = "RequiredArgumentMissing"]_vars

\* C11 witness: the empty token sequence was parsed against one required
\* positional.
C11_Witness ==
    /\ pc = "done" /\ result = "RequiredArgumentMissing"
    /\ tokens = <<>>
    /\ Len(Positionals) = 1 /\ Len(m_arguments) = 1
    /\ Positionals[1].min_count > 0

\* the positional phase is about to look at a token
AtPositionalToken == pc = "positional" /\ pos < Len(tokens)

\* C12: in the positional phase a token that remains when every positional
\* slot has been passed (also when no positional argument is registered)
\* fails the parse with UnexpectedArgument; the token is not taken and is
\* recorded for no argument.
C12_UnexpectedArgument ==
    [][(AtPositionalToken /\ arg_iter > Len(Positionals)) =>
            /\ pc' = "done"
            /\ result' = "UnexpectedArgument"
            /\ values' = values
            /\ pos' = pos]_vars

\* C12 witness: a token was parsed against a repository without positional
\* argument; nothing was recorded.
C12_Witness ==
    /\ pc = "done" /\ result = "UnexpectedArgument"
    /\ Len(Positionals) = 0 /\ Len(m_arguments) > 0
    /\ Len(tokens) > 0
    /\ \A id \in DOMAIN values : values[id] = <<>>

\* C13: in the positional phase the current slot advances after a value was
\* recorded if and only if the maximum count of the slot is exactly 1. So a
\* positional whose maximum count is not 1, once it is the current slot,
\* receives every remaining token (or fails on its arity), and a positional
\* registered after it holds no value at any point of any parse.
C13_SlotAdvance ==
    [][/\ (AtPositionalToken /\ arg_iter <= Len(Positionals)) =>
            LET slot == Positionals[arg_iter]
            IN  /\ Records(slot, tokens[pos + 1])
                /\ Count(slot) < slot.max_count =>
                      /\ pos' = pos + 1
                      /\ pc' = "positional"
                      /\ arg_iter' = (IF slot.max_count = 1
                                      THEN arg_iter + 1 ELSE arg_iter)
       /\ \A i, j \in DOMAIN Positionals :
            (i < j /\ Positionals[i].max_count # 1) =>
                Count(Positionals[j])' = 0]_vars

\* C13 witness: of two positionals the first one, with maximum count 2, took
\* both tokens and the second one none.
C13_Witness ==
    /\ pc = "done" /\ result = "ok"
    /\ Len(Positionals) = 2 /\ Len(tokens) = 2
    /\ Positionals[1].max_count = 2
    /\ values[Positionals[1].id] = tokens
    /\ Count(Positionals[2]) = 0

\* C14: when a sub-command-dispatcher is registered, the first token left
\* after the named phase selects the nested Repository by name, and the parse
\* fails with UnknownSubcommand if no sub-command has that name; the outer
\* positional phase takes no token. (add_subparsers registers the dispatcher
\* without any sub-command, so every token left is the name of none.)
C14_SubcommandDispatch ==
    [][(AtPositionalToken /\ HasSubparsers) =>
            /\ pc' = "done"
            /\ result' = "UnknownSubcommand"
            /\ values' = values
            /\ pos' = pos]_vars

\* the outcome of the parse of a token sequence, run alone
Alone(toks) == ParseRun(Repo, parse(Repo, toks))

\* C15: no step of a parse call changes the Repository, whether the call
\* succeeds or fails; and of two parse calls that interleave step by step on
\* the same Repository, each ends with the outcome (values and result) it has
\* when run alone.
C15_ParseLeavesRepository ==
    [][/\ UNCHANGED repo_vars
       /\ pc' = "done" =>
            /\ result' = Alone(tokens').result
            /\ values' = Alone(tokens').values
       /\ other'.pc = "done" => SameResults(other', Alone(other'.tokens))]_vars

\* C15 witness: two calls over different inputs have both ended before either
\* was dropped, each with its own value for the same valued argument of
\* maximum count 1.
C15_Witness ==
    /\ pc = "done" /\ result = "ok"
    /\ other.pc = "done" /\ other.result = "ok"
    /\ tokens # other.tokens
    /\ \E arg \in Range(m_arguments) :
          /\ arg.kind = "VALUED" /\ arg.max_count = 1
          /\ Count(arg) = 1 /\ Len(other.values[arg.id]) = 1
          /\ values[arg.id] # other.values[arg.id]

\* the name part of a token resolves to a switch or to a valued argument
ResolvesNamed(t) ==
    Resolves(NamePart(t), "SWITCH") \/ Resolves(NamePart(t), "VALUED")

\* C16: the named phase stops at the first token whose name part does not
\* resolve to a switch or a valued argument (an unregistered string, the name
\* of a positional argument) and does not take that token; no later step of
\* the parse is a step of the named phase, and every token from there on is
\* recorded for the current positional slot (under the arity check of C6) or
\* rejected with UnexpectedArgument, whether or not it is the name of a
\* switch or of a valued argument.
C16_NamedPhaseStops ==
    [][/\ (AtNamedToken /\ ~ResolvesNamed(tokens[pos + 1])) =>
            /\ pc' = "positional"
            /\ pos' = pos
            /\ values' = values
            /\ result' = "running"
       /\ pc \in {"positional", "required"} => pc' \in {"positional", "required", "done"}
       /\ AtPositionalToken =>
            IF arg_iter <= Len(Positionals)
            THEN Records(Positionals[arg_iter], tokens[pos + 1])
            ELSE /\ pc' = "done"
                 /\ result' = "UnexpectedArgument"
                 /\ values' = values]_vars

\* C16 witness: the name of a positional argument ended the named phase and
\* the name of a switch or valued argument after it was recorded as a
\* positional value; the named argument holds no value.
C16_Witness ==
    /\ pc = "done" /\ result = "ok"
    /\ Len(tokens) = 2 /\ Len(Positionals) = 1
    /\ tokens[1] \in Range(Positionals[1].names)
    /\ ResolvesNamed(tokens[2])
    /\ values[Positionals[1].id] = tokens
    /\ Count(Owner(NamePart(tokens[2]))) = 0

\* C17: after a successful parse the recorded-value count of every registered
\* argument, named or positional, is at least its minimum count and at most
\* its maximum count, also for a minimum count greater than 1.
C17_CountWithinArity ==
    (pc = "done" /\ result = "ok") =>
        \A arg \in AllArguments(Repo) :
            arg.min_count <= Count(arg) /\ Count(arg) <= arg.max_count

\* C18: a token that holds the value separator is split at its first
\* occurrence only: the name is the text before it and the inline value all
\* the text after it, further separators included and the empty string
\* included; when the name part is not registered the token is not taken and
\* the positional phase sees the whole token.
C18_SplitAtFirstSeparator ==
    [][/\ (AtNamedToken /\ HasSeparator(tokens[pos + 1])) =>
            LET t == tokens[pos + 1]
            IN  /\ Resolves(NamePart(t), "VALUED") =>
                      /\ pos' = pos + 1
                      /\ Records(Owner(NamePart(t)), InlineValue(t))
                /\ NamePart(t) \notin DOMAIN m_names_repository =>
                      /\ pc' = "positional"
                      /\ pos' = pos
                      /\ tokens' = tokens
                      /\ values' = values
       /\ (/\ AtPositionalToken
           /\ HasSeparator(tokens[pos + 1])
           /\ arg_iter <= Len(Positionals)) =>
                Records(Positionals[arg_iter], tokens[pos + 1])]_vars

\* C18 witness: the tokens a== and a= gave the valued argument a the value =
\* and then the empty value.
C18_Witness ==
    /\ pc = "done" /\ result = "ok"
    /\ tokens = << <<"a", "=", "=">>, <<"a", "=">> >>
    /\ Resolves(<<"a">>, "VALUED")
    /\ values[Owner(<<"a">>).id] = << <<"=">>, <<>> >>

\* C19: when a valued argument is named without inline value and a token
\* follows, that token is taken and recorded as it stands (under the arity
\* check of C6) whatever it is: it is not looked up and not split, no other
\* argument gets a value in the step, and the named phase goes on with the
\* token after it; a following switch name is the value and the switch
\* stays absent.
C19_FollowingTokenVerbatim ==
    [][(/\ AtNamedToken
        /\ ~HasSeparator(tokens[pos + 1])
        /\ Resolves(tokens[pos + 1], "VALUED")
        /\ pos + 1 < Len(tokens)) =>
            LET arg == Owner(tokens[pos + 1])
            IN  /\ pos' = pos + 2
                /\ Records(arg, tokens[pos + 2])
                /\ \A o \in AllArguments(Repo) : o # arg => Count(o)' = Count(o)
                /\ pc' \in {"named", "done"}
                /\ pc' = "done" => result' = "TooManyOccurrences"]_vars

\* C19 witness: the name of a switch followed the name of a valued argument;
\* it is the value of the valued argument and the switch is absent.
C19_Witness ==
    /\ pc = "done" /\ result = "ok"
    /\ Len(tokens) = 2
    /\ Resolves(tokens[1], "VALUED") /\ Resolves(tokens[2], "SWITCH")
    /\ values[Owner(tokens[1]).id] = <<tokens[2]>>
    /\ Count(Owner(tokens[2])) = 0

\* the values a token can give to an argument: the token itself (following
\* token of a valued argument, positional value), its inline value, or the
\* implicit value of a switch
ValuesOf(t) ==
    {t, switch_enabled_literal} \cup (IF HasSeparator(t) THEN {InlineValue(t)} ELSE {})

\* vals can be read off toks from left to right: its values come from tokens
\* at strictly increasing places
InInputOrder(vals, toks) ==
    \E f \in [DOMAIN vals -> DOMAIN toks] :
        /\ \A k, l \in DOMAIN vals : k < l => f[k] < f[l]
        /\ \A k \in DOMAIN vals : vals[k] \in ValuesOf(toks[f[k]])

\* C20: the value sequence of every argument lists its values in the order
\* in which they were met in the input. Step by step: the cursor only moves
\* forward, and a step leaves the sequence of an argument as it is or puts
\* one value, given by a token the step takes, at its end; at the end of a
\* successful parse every sequence can be read off the input from left to
\* right.
C20_InputOrder ==
    [][/\ pc \in {"named", "positional", "required"} =>
            /\ tokens' = tokens
            /\ pos' >= pos
            /\ \A id \in DOMAIN values :
                  \/ values'[id] = values[id]
                  \/ \E i \in (pos + 1)..pos' : \E v \in ValuesOf(tokens[i]) :
                        values'[id] = Append(values[id], v)
       /\ (pc' = "done" /\ result' = "ok") =>
            \A id \in DOMAIN values' : InInputOrder(values'[id], tokens')]_vars

\* C20 witness: the valued argument a was given b and then the empty value;
\* its sequence holds them in that order.
C20_Witness ==
    /\ pc = "done" /\ result = "ok"
    /\ tokens = << <<"a", "=", "b">>, <<"a", "=">> >>
    /\ Resolves(<<"a">>, "VALUED")
    /\ values[Owner(<<"a">>).id] = << <<"b">>, <<>> >>

\* a parse call is in progress
Parsing == pc \in {"named", "positional", "required"}

ParseErrors ==
    {"TooManyOccurrences", "MissingValue", "UnexpectedValue",
     "UnexpectedArgument", "RequiredArgumentMissing"}

\* C21: every parse call ends, with Results or with a parse error; the cursor
\* never moves back, every turn of the named loop and of the positional loop
\* takes at least one token or ends the loop, and a parse that returns
\* Results has taken every token of the input.
C21_ParseTerminates ==
    /\ Parsing ~> (pc = "done" /\ result \in {"ok"} \cup ParseErrors)
    /\ [][Parsing =>
            /\ tokens' = tokens
            /\ pos' >= pos
            /\ pc = "named" => (pos' > pos \/ pc' # "named")
            /\ pc = "positional" => (pos' > pos \/ pc' # "positional")
            /\ (pc' = "done" /\ result' = "ok") => pos' = Len(tokens)]_vars

\* C21 witness: a parse returned Results after the named phase and the
\* positional phase each took a token.
C21_Witness ==
    /\ pc = "done" /\ result = "ok"
    /\ Len(tokens) = 2 /\ pos = 2
    /\ ResolvesNamed(tokens[1])
    /\ Len(Positionals) > 0 /\ values[Positionals[1].id] = <<tokens[2]>>

\* C22: in every state reached by registration calls, successful or failed,
\* no two definitions of the Repository share a name, and the keys of the
\* Name Table are the names of the definitions the Repository owns (the
\* definition sequence and the sub-command-dispatcher, if any), each key
\* mapped to the definition that owns it.
C22_NameTable ==
    LET owned == AllArguments(Repo)
    IN  /\ \A d1, d2 \in owned :
              d1 # d2 => d1.id # d2.id /\ Range(d1.names) \cap Range(d2.names) = {}
        /\ DOMAIN m_names_repository = UNION { Range(d.names) : d \in owned }
        /\ \A n \in DOMAIN m_names_repository :
              \E d \in owned : d.id = m_names_repository[n] /\ n \in Range(d.names)

\* C22 witness: a call failed on a name of the dispatcher, which the Name
\* Table holds next to the names of a definition of the sequence.
C22_Witness ==
    /\ pc = "returned" /\ result = "DuplicateName"
    /\ HasSubparsers /\ Len(m_arguments) > 0
    /\ \E i \in DOMAIN call.names :
          /\ call.names[i] \in Range(m_subparsers_argument.names)
          /\ m_names_repository[call.names[i]] = m_subparsers_argument.id

\* every configuration_exception of basic_parser
ParserConfigurationErrors ==
    {"InvalidName", "DuplicateName",
     "OptionalPositionalAlreadyAdded", "MultivaluePositionalAlreadyAdded"}

\* the positional registered last is optional or takes more than one value
LastPositionalOpen ==
    /\ Positionals # <<>>
    /\ LET last == Positionals[Len(Positionals)]
       IN  last.min_count = 0 \/ last.max_count > 1

\* C23: basic_parser::add_positional fails with a configuration error and
\* leaves the positional sequence and the name table as they were when the
\* positional registered last is not required or has a maximum count above
\* 1; so every positional except the last one is required and single-valued.
C23_AddPositionalRestricted ==
    [][/\ (RegistrationCall /\ call'.op = "add_positional" /\ LastPositionalOpen) =>
            /\ result' \in ParserConfigurationErrors
            /\ m_arguments' = m_arguments
            /\ m_names_repository' = m_names_repository
       /\ \A i \in 1..(Len(Positionals') - 1) :
            Positionals'[i].min_count > 0 /\ Positionals'[i].max_count = 1]_vars

\* C23 witness: after a required single-value positional and a multivalue
\* one, a third add_positional call with a valid new name failed.
C23_Witness ==
    /\ pc = "returned" /\ call.op = "add_positional"
    /\ result = "MultivaluePositionalAlreadyAdded"
    /\ Len(Positionals) = 2
    /\ Positionals[2].min_count > 0 /\ Positionals[2].max_count > 1

\* C24: in the named phase the checks of the presence of a value come before
\* the arity check: a valued argument whose count equals its maximum count
\* and that is named again as the last token fails the parse with
\* MissingValue, and a switch whose count equals its maximum count and that
\* is given with an inline value fails it with UnexpectedValue; neither
\* fails with TooManyOccurrences.
C24_ValuePresenceFirst ==
    [][/\ (/\ AtNamedToken
           /\ ~HasSeparator(tokens[pos + 1])
           /\ Resolves(tokens[pos + 1], "VALUED")
           /\ pos + 1 = Len(tokens)
           /\ Count(Owner(tokens[pos + 1])) = Owner(tokens[pos + 1]).max_count) =>
                pc' = "done" /\ result' = "MissingValue"
       /\ (/\ AtNamedToken
           /\ HasSeparator(tokens[pos + 1])
           /\ Resolves(NamePart(tokens[pos + 1]), "SWITCH")
           /\ Count(Owner(NamePart(tokens[pos + 1])))
                = Owner(NamePart(tokens[pos + 1])).max_count) =>
                pc' = "done" /\ result' = "UnexpectedValue"]_vars

\* C24 witness: a switch that holds as many values as its maximum count
\* allows was given with an inline value.
C24_Witness ==
    /\ pc = "done" /\ result = "UnexpectedValue"
    /\ pos = Len(tokens) /\ HasSeparator(tokens[pos])
    /\ Resolves(NamePart(tokens[pos]), "SWITCH")
    /\ Count(Owner(NamePart(tokens[pos]))) = Owner(NamePart(tokens[pos])).max_count

====
